---------------------------- MODULE Spec2Model ----------------------------
(***************************************************************************)
(* Model of the agent tool layer of DaveLovable's backend:                 *)
(*   - the surgical edit tool (agents/tools/edit_file.py),                 *)
(*   - the run_terminal_cmd implementations (agents/tools/terminal.py,     *)
(*     agents/tools/terminal_operations.py, agents/tools.py),              *)
(*   - the tool registry and execute_tool (agents/tools.py),               *)
(*   - the versioned workspace (services/git_service.py,                   *)
(*     services/project_service.py, services/filesystem_service.py),       *)
(*   - the chat stream and the reconnect endpoint (api/chat.py,            *)
(*     services/chat_service.py),                                          *)
(*   - the search tools grep_search, file_search and glob_search,          *)
(*   - the write tools write_file and write_json,                          *)
(*   - process_chat_message and its working directory                      *)
(*     (services/chat_service.py),                                         *)
(*   - the Planner/Coder loop of one run (agents/prompts.py).              *)
(* Text is a sequence of one-character strings; a file is a sequence of    *)
(* bytes of the same alphabet, or NoFile.  The host is a POSIX host.       *)
(***************************************************************************)
EXTENDS Integers, Sequences, FiniteSets, TLC

VARIABLES
    fileBytes,   \* edit tool: the bytes of the target file, or NoFile
    editCall,    \* edit tool: the last edit_file call and what it returned
    undo,        \* edit tool: the content before the last edit, while its inverse edit is checked
    termCall,    \* run_terminal_cmd: the call in progress, or NoCall
    termResult,  \* run_terminal_cmd: what the call returned
    proc,        \* run_terminal_cmd: the subprocess the call started, if any
    bgProcs,     \* run_terminal_cmd: processes left running after their call returned
    toolCall,    \* tool catalog: the tool call in progress, or NoCall
    toolResult,  \* tool catalog: what the call returned, or the exception that left it
    worktree,    \* workspace: the files of the project directory
    index,       \* workspace: the files staged in the git index
    commits,     \* workspace: the trees of the commits, oldest first
    dbFiles,     \* workspace: the paths that have a ProjectFile row
    wsCall,      \* workspace: the mutating operation in progress, or NoCall
    streamPc,    \* chat stream: where event_generator stands
    produced,    \* chat stream: the events the agent run has produced, in order
    pending,     \* chat stream: the event the loop body is about to send
    frames,      \* chat stream: the frames sent to the client, in order
    sinceHeartbeat, \* chat stream: seconds since last_heartbeat
    silence,     \* chat stream: seconds since the last frame was sent
    streamError, \* chat stream: the message of the exception the agent run raised
    chatMessages, \* chat history: the ids of the persisted messages of the session
    reconCall,   \* chat history: the reconnect request in progress, or NoCall
    searchCall,  \* search tools: the search in progress, or NoCall
    cwd,         \* chat requests: the working directory of the server process
    reqs,        \* chat requests: each process_chat_message call, by request
    lastWrite,   \* chat requests: the latest write of a tool of an agent run
    loop         \* agent loop: the state of the Planner/Coder loop of one run

editVars == <<fileBytes, editCall, undo>>
termVars == <<termCall, termResult, proc, bgProcs>>
toolVars == <<toolCall, toolResult>>
wsVars == <<worktree, index, commits, dbFiles, wsCall>>
streamVars == <<streamPc, produced, pending, frames, sinceHeartbeat, silence, streamError>>
reconVars == <<chatMessages, reconCall>>
searchVars == <<searchCall>>
chatVars == <<cwd, reqs, lastWrite>>
loopVars == <<loop>>

vars == <<editVars, termVars, toolVars, wsVars, streamVars, reconVars, searchVars, chatVars, loopVars>>

\* What an action of one component leaves alone
notEdit == <<termVars, toolVars, wsVars, streamVars, reconVars, searchVars, chatVars, loopVars>>
notTerm == <<editVars, toolVars, wsVars, streamVars, reconVars, searchVars, chatVars, loopVars>>
notTools == <<editVars, termVars, wsVars, streamVars, reconVars, searchVars, chatVars, loopVars>>
notWs == <<editVars, termVars, toolVars, streamVars, reconVars, searchVars, chatVars, loopVars>>
notStream == <<editVars, termVars, toolVars, wsVars, reconVars, searchVars, chatVars, loopVars>>
notRecon == <<editVars, termVars, toolVars, wsVars, streamVars, searchVars, chatVars, loopVars>>
notSearch == <<editVars, termVars, toolVars, wsVars, streamVars, reconVars, chatVars, loopVars>>
notChat == <<editVars, termVars, toolVars, wsVars, streamVars, reconVars, searchVars, loopVars>>
notLoop == <<editVars, termVars, toolVars, wsVars, streamVars, reconVars, searchVars, chatVars>>

(***************************************************************************)
(* Bounds of the model.                                                    *)
(***************************************************************************)
MaxLen == 3      \* longest file, in characters
MaxPat == 2      \* longest old_string / new_string, in characters
MaxParts == 2    \* most parts a command line is put together from
MaxProcs == 1    \* most background processes left running at a time
MaxCommits == 3  \* most commits in the history of the workspace
MaxEvents == 3   \* most events an agent run produces
MaxExtra == 2    \* most messages of a session beyond the limit of a reconnect
MaxFiles == 3    \* most files grep_search reads
MaxCalls == 4    \* most tool calls of one run of the agent loop
MaxRequests == 2 \* most chat requests in progress at a time
MaxTurns == 2    \* the total-turn budget of an agent run

(***************************************************************************)
(* Text.                                                                   *)
(***************************************************************************)
CR == "CR"
LF == "LF"
Alphabet == {"a", CR, LF}

Strings(S, n) == UNION {[1..k -> S] : k \in 0..n}

\* A missing file: no sequence over the alphabet
NoFile == <<"ENOENT">>
NoCall == [op |-> "none"]

\* os.linesep of the host
LineSep == <<LF>>

\* Reading in text mode with newline=None: "\r\n" and a lone "\r" are read as "\n".
\* (The "\n" of a "\r\n" is dropped and every "\r" becomes "\n".)
UniversalNewlines(b) ==
    LET positions == [i \in 1..Len(b) |-> i]
        kept == SelectSeq(positions, LAMBDA i : ~(b[i] = LF /\ i > 1 /\ b[i - 1] = CR))
    IN [j \in 1..Len(kept) |-> IF b[kept[j]] = CR THEN LF ELSE b[kept[j]]]

\* Writing in text mode with newline=None: "\n" is written as os.linesep.
RECURSIVE WriteNewlines(_)
WriteNewlines(t) ==
    IF Len(LineSep) = 1
    THEN [i \in 1..Len(t) |-> IF t[i] = LF THEN LineSep[1] ELSE t[i]]
    ELSE IF t = <<>> THEN <<>>
         ELSE (IF Head(t) = LF THEN LineSep ELSE <<Head(t)>>) \o WriteNewlines(Tail(t))

\* sub in s
Contains(s, sub) ==
    \E i \in 0..(Len(s) - Len(sub)) : SubSeq(s, i + 1, i + Len(sub)) = sub

StartsWith(s, p) == Len(p) <= Len(s) /\ SubSeq(s, 1, Len(p)) = p

\* s.replace(old, new, count): a left-to-right scan that stops replacing after
\* count replacements (a negative count never stops); an empty old matches
\* before every character and at the end.
RECURSIVE PyReplace(_, _, _, _)
PyReplace(s, old, new, count) ==
    IF count = 0 THEN s
    ELSE IF old = <<>>
         THEN IF s = <<>> THEN new
              ELSE new \o <<Head(s)>> \o PyReplace(Tail(s), old, new, count - 1)
         ELSE IF s = <<>> THEN s
              ELSE IF StartsWith(s, old)
                   THEN new \o PyReplace(SubSeq(s, Len(old) + 1, Len(s)), old, new, count - 1)
                   ELSE <<Head(s)>> \o PyReplace(Tail(s), old, new, count)

(***************************************************************************)
(* edit_file                                                               *)
(***************************************************************************)
EditAllOccurrences(content, old_string, new_string) ==
    PyReplace(content, old_string, new_string, -1)

\* new_content = content.replace(old_string, new_string, 1)
EditNewContent(content, old_string, new_string) ==
    PyReplace(content, old_string, new_string, 1)

\* edit_file that creates the target when it is missing
EditCreatesMissing(b, old_string, new_string) ==
    IF b = NoFile
    THEN [success |-> FALSE, error |-> "File not found",
          content |-> <<>>, new_content |-> <<>>, bytes |-> <<>>]
    ELSE LET content == UniversalNewlines(b) IN
         IF ~Contains(content, old_string)
         THEN [success |-> FALSE, error |-> "String not found in file",
               content |-> content, new_content |-> content, bytes |-> b]
         ELSE LET new_content == EditNewContent(content, old_string, new_string) IN
              [success |-> TRUE, error |-> "",
               content |-> content, new_content |-> new_content,
               bytes |-> WriteNewlines(new_content)]

\* The result of edit_file on a target whose bytes are b: what it returns, the
\* text it read and the text it computed, and the bytes of the file afterwards.
edit_file(b, old_string, new_string) ==
    IF b = NoFile
    THEN [success |-> FALSE, error |-> "File not found",
          content |-> <<>>, new_content |-> <<>>, bytes |-> b]
    ELSE LET content == UniversalNewlines(b) IN
         IF ~Contains(content, old_string)
         THEN [success |-> FALSE, error |-> "String not found in file",
               content |-> content, new_content |-> content, bytes |-> b]
         ELSE LET new_content == EditNewContent(content, old_string, new_string) IN
              [success |-> TRUE, error |-> "",
               content |-> content, new_content |-> new_content,
               bytes |-> WriteNewlines(new_content)]

EditRecord(b, old_string, new_string) ==
    LET r == edit_file(b, old_string, new_string) IN
    [op |-> "edit_file", before |-> b, old |-> old_string, new |-> new_string,
     success |-> r.success, error |-> r.error,
     content |-> r.content, new_content |-> r.new_content, after |-> r.bytes]

Fits(rec) == rec.after = NoFile \/ Len(rec.after) <= MaxLen

\* The agent calls edit_file(target_file, old_string, new_string); tool calls are
\* made one at a time.
EditFile ==
    /\ editCall = NoCall
    /\ \E old_string, new_string \in Strings(Alphabet, MaxPat) :
        LET rec == EditRecord(fileBytes, old_string, new_string) IN
        /\ Fits(rec)
        /\ fileBytes' = rec.after
        /\ editCall' = rec
        /\ undo' = [active |-> FALSE]
    /\ UNCHANGED notEdit

\* The agent repeats the last successful edit with old_string and new_string swapped.
EditSwapped ==
    /\ editCall.op = "edit_file"
    /\ editCall.success
    /\ ~undo.active
    /\ LET rec == EditRecord(fileBytes, editCall.new, editCall.old) IN
       /\ Fits(rec)
       /\ fileBytes' = rec.after
       /\ editCall' = rec
       /\ undo' = [active |-> TRUE, first |-> editCall]
    /\ UNCHANGED notEdit

\* The agent takes the result of the call; the file stays as the call left it.
EditReturn ==
    /\ editCall # NoCall
    /\ editCall' = NoCall
    /\ undo' = [active |-> FALSE]
    /\ UNCHANGED fileBytes
    /\ UNCHANGED notEdit

EditIdle ==
    /\ fileBytes = NoFile
    /\ editCall = NoCall
    /\ undo = [active |-> FALSE]

\* Files and arguments that hold horizontal whitespace
SP == " "
SpaceAlphabet == {"a", SP}

\* edit_file called on a file of words and spaces
EditFileSpaces ==
    /\ editCall = NoCall
    /\ \E old_string, new_string \in Strings(SpaceAlphabet, MaxLen) :
        LET rec == EditRecord(fileBytes, old_string, new_string) IN
        /\ Fits(rec)
        /\ fileBytes' = rec.after
        /\ editCall' = rec
        /\ undo' = [active |-> FALSE]
    /\ UNCHANGED notEdit

\* The number of lines the prompt's "File Demolition" rule speaks of
DEMOLITION_LINES == 100

\* A file of n empty lines
BlankLines(n) == [i \in 1..n |-> LF]

\* The longest file of lines looked at
MaxLines == DEMOLITION_LINES + MaxPat

\* edit_file called on a file of lines: old_string is a block of leading lines of
\* the file, new_string a few lines.
EditFileLines ==
    /\ editCall = NoCall
    /\ fileBytes # NoFile
    /\ \E k \in 0..Len(fileBytes), new_string \in Strings({LF}, MaxPat) :
        LET rec == EditRecord(fileBytes, SubSeq(fileBytes, 1, k), new_string) IN
        /\ Len(rec.after) <= MaxLines
        /\ fileBytes' = rec.after
        /\ editCall' = rec
        /\ undo' = [active |-> FALSE]
    /\ UNCHANGED notEdit

(***************************************************************************)
(* write_file and write_json: agents/tools/write_file.py,                  *)
(* agents/tools/write_json.py (and their copies in tools.py,               *)
(* file_operations.py and json_operations.py).  A str is a sequence of     *)
(* characters, a file a sequence of bytes.                                 *)
(***************************************************************************)
\* A character of two bytes in UTF-8, and a lone surrogate, which UTF-8 cannot
\* encode
EAcute == "U+00E9"
Surrogate == "U+D800"

WriteAlphabet == {"a", EAcute, Surrogate}

\* str.encode('utf-8') of one character
Utf8Char(c) == IF c = EAcute THEN <<"0xC3", "0xA9">> ELSE <<c>>

RECURSIVE Utf8(_)
Utf8(text) == IF text = <<>> THEN <<>> ELSE Utf8Char(Head(text)) \o Utf8(Tail(text))

\* The codec raises UnicodeEncodeError
Encodable(text) == \A i \in 1..Len(text) : text[i] # Surrogate

\* Where the operating system fails: nowhere, in os.makedirs or in open
WriteFaults == {"none", "makedirs", "open"}

\* write_file(target_file, file_content): open(target_file, 'w') creates or
\* truncates the file, f.write encodes and writes the content, and
\* bytes_written is len(file_content); an exception gives the error result.
write_file(b, file_content, fault) ==
    IF fault # "none"
    THEN [success |-> FALSE, error |-> "str(e)", bytes |-> b, bytes_written |-> 0]
    ELSE IF ~Encodable(file_content)
    THEN [success |-> FALSE, error |-> "str(e)", bytes |-> <<>>, bytes_written |-> 0]
    ELSE [success |-> TRUE, error |-> "", bytes |-> Utf8(WriteNewlines(file_content)),
          bytes_written |-> Len(file_content)]

\* The values of a JSON array: strings, and an object json cannot serialize
NotSerializable == "<object>"
JsonItems == {"a", EAcute, NotSerializable}
Quote == "\""

\* json.dump(data, f, indent=2, ensure_ascii=False) of a list: the encoder
\* yields the text chunk by chunk and dump writes each chunk; the separator in
\* front of an item is yielded before the item is encoded, and an item that
\* cannot be serialized raises TypeError.
RECURSIVE DumpItems(_, _, _)
DumpItems(data, i, written) ==
    LET buf == IF i = 1 THEN <<"[", LF, SP, SP>> ELSE <<",", LF, SP, SP>>
    IN IF i > Len(data) THEN [ok |-> TRUE, text |-> written \o <<LF, "]">>]
       ELSE IF data[i] = NotSerializable THEN [ok |-> FALSE, text |-> written \o buf]
       ELSE DumpItems(data, i + 1, written \o buf \o <<Quote, data[i], Quote>>)

json_dump(data) ==
    IF data = <<>> THEN [ok |-> TRUE, text |-> <<"[", "]">>] ELSE DumpItems(data, 1, <<>>)

\* write_json(filepath, data): open(filepath, 'w') creates or truncates the
\* file and json.dump writes into it; what was written before a TypeError is
\* in the file when the with block closes it.
write_json(b, data, fault) ==
    IF fault # "none"
    THEN [success |-> FALSE, error |-> "str(e)", bytes |-> b, bytes_written |-> 0]
    ELSE LET dumped == json_dump(data) IN
         [success |-> dumped.ok,
          error |-> IF dumped.ok THEN "" ELSE "Data is not JSON serializable",
          bytes |-> Utf8(WriteNewlines(dumped.text)),
          bytes_written |-> 0]

WriteRecord(op, b, input, r) ==
    [op |-> op, before |-> b, input |-> input, success |-> r.success,
     error |-> r.error, after |-> r.bytes, bytes_written |-> r.bytes_written]

\* The agent calls write_file(target_file, file_content).
WriteFile ==
    /\ editCall = NoCall
    /\ \E file_content \in Strings(WriteAlphabet, MaxLen), fault \in WriteFaults :
        LET rec == WriteRecord("write_file", fileBytes, file_content,
                               write_file(fileBytes, file_content, fault))
        IN /\ editCall' = rec
           /\ fileBytes' = rec.after
    /\ UNCHANGED undo
    /\ UNCHANGED notEdit

\* The agent calls write_json(filepath, data).
WriteJson ==
    /\ editCall = NoCall
    /\ \E data \in Strings(JsonItems, MaxParts), fault \in WriteFaults :
        LET rec == WriteRecord("write_json", fileBytes, data,
                               write_json(fileBytes, data, fault))
        IN /\ editCall' = rec
           /\ fileBytes' = rec.after
    /\ UNCHANGED undo
    /\ UNCHANGED notEdit

(***************************************************************************)
(* run_terminal_cmd: agents/tools/terminal.py, agents/tools/                *)
(* terminal_operations.py and agents/tools.py.                             *)
(***************************************************************************)
UpperCase == <<"A", "B", "C", "D", "E", "F", "G", "H", "I", "J", "K", "L", "M", "N", "O", "P", "Q", "R", "S", "T", "U", "V", "W", "X", "Y", "Z">>
LowerCase == <<"a", "b", "c", "d", "e", "f", "g", "h", "i", "j", "k", "l", "m", "n", "o", "p", "q", "r", "s", "t", "u", "v", "w", "x", "y", "z">>

\* str.lower()
ToLower(c) ==
    IF \E i \in 1..Len(UpperCase) : UpperCase[i] = c
    THEN LowerCase[CHOOSE i \in 1..Len(UpperCase) : UpperCase[i] = c]
    ELSE c

LowerStr(s) == [i \in 1..Len(s) |-> ToLower(s[i])]

Whitespace == {" ", "\t", "\n", "\r"}

\* str.strip()
RECURSIVE LStrip(_)
LStrip(s) == IF s # <<>> /\ Head(s) \in Whitespace THEN LStrip(Tail(s)) ELSE s

RECURSIVE RStrip(_)
RStrip(s) ==
    IF s # <<>> /\ s[Len(s)] \in Whitespace THEN RStrip(SubSeq(s, 1, Len(s) - 1)) ELSE s

Strip(s) == RStrip(LStrip(s))

\* str.endswith()
EndsWith(s, suffix) ==
    Len(suffix) <= Len(s) /\ SubSeq(s, Len(s) - Len(suffix) + 1, Len(s)) = suffix

\* terminal.py: forbidden_patterns
forbidden_patterns ==
    << <<"n", "p", "m", " ", "r", "u", "n", " ", "d", "e", "v">>,
       <<"n", "p", "m", " ", "s", "t", "a", "r", "t">>,
       <<"n", "p", "m", " ", "r", "u", "n", " ", "b", "u", "i", "l", "d">>,
       <<"y", "a", "r", "n", " ", "d", "e", "v">>,
       <<"y", "a", "r", "n", " ", "s", "t", "a", "r", "t">>,
       <<"y", "a", "r", "n", " ", "b", "u", "i", "l", "d">>,
       <<"p", "n", "p", "m", " ", "d", "e", "v">>,
       <<"p", "n", "p", "m", " ", "s", "t", "a", "r", "t">>,
       <<"p", "n", "p", "m", " ", "b", "u", "i", "l", "d">>,
       <<"v", "i", "t", "e">>,
       <<"v", "i", "t", "e", " ", "d", "e", "v">>,
       <<"v", "i", "t", "e", " ", "b", "u", "i", "l", "d">>,
       <<"r", "e", "a", "c", "t", "-", "s", "c", "r", "i", "p", "t", "s", " ", "s", "t", "a", "r", "t">>,
       <<"n", "e", "x", "t", " ", "d", "e", "v">>,
       <<"n", "e", "x", "t", " ", "s", "t", "a", "r", "t">> >>

\* The command lines of the model: up to MaxParts of these parts, one after another
CommandParts ==
    { <<"n", "p", "m", " ", "r", "u", "n", " ", "d", "e", "v">>,
      <<"N", "P", "M", " ", "S", "t", "a", "r", "t">>,
      <<"n", "p", "m", " ", "i", "n", "s", "t", "a", "l", "l", " ">>,
      <<"v", "i", "t", "e">>,
      <<"n", "p", "m", " ", "c", "i">>,
      <<"l", "s">>,
      <<"s", "l", "e", "e", "p", " ", "9">>,
      <<" ", "&", " ">>,
      <<" ", "&", "&", " ">>,
      <<"&">>,
      <<"c", "d", " ", "a", "p", "p">> }

RECURSIVE CommandsOf(_)
CommandsOf(n) ==
    IF n = 0 THEN {<<>>}
    ELSE CommandsOf(n - 1) \cup {c \o part : c \in CommandsOf(n - 1), part \in CommandParts}

Commands == CommandsOf(MaxParts)

\* The three implementations of run_terminal_cmd
Implementations == {"terminal", "terminal_operations", "tools_py"}

\* subprocess.run(..., timeout=...) of each implementation, in seconds
TERMINAL_TIMEOUT == 60
OPS_TIMEOUT == 30
TOOLS_TIMEOUT == 30

\* How long a command runs when nothing stops it, in seconds
Durations == {1, OPS_TIMEOUT + 1, TERMINAL_TIMEOUT + 1}

NoProc == [started |-> FALSE, background |-> FALSE, killed |-> FALSE, ends |-> 0]
\* success is read only in a result of type "dict"
NoResult == [type |-> "none", kind |-> "none", success |-> FALSE, returned |-> 0]

\* A call that returns without starting a subprocess
ShortCircuit(type, kind) ==
    [result |-> [type |-> type, kind |-> kind, success |-> FALSE, returned |-> 0],
     proc |-> NoProc]

\* subprocess.run(command, shell=True, capture_output=True, text=True, timeout=timeout):
\* the child is started and waited for; past the timeout it is killed and
\* TimeoutExpired is raised, which every implementation catches.
SubprocessRun(type, duration, exit_code, timeout) ==
    IF duration > timeout
    THEN [result |-> [type |-> type, kind |-> "timeout", success |-> FALSE, returned |-> timeout],
          proc |-> [started |-> TRUE, background |-> FALSE, killed |-> TRUE, ends |-> timeout]]
    ELSE [result |-> [type |-> type, kind |-> "completed", success |-> (exit_code = 0),
                      returned |-> duration],
          proc |-> [started |-> TRUE, background |-> FALSE, killed |-> FALSE, ends |-> duration]]

\* subprocess.Popen(command, shell=True, ...): the child is started and not waited for.
SubprocessPopen(duration) ==
    [result |-> [type |-> "dict", kind |-> "background_started", success |-> TRUE, returned |-> 0],
     proc |-> [started |-> TRUE, background |-> TRUE, killed |-> FALSE, ends |-> duration]]

\* terminal.py: for forbidden in forbidden_patterns: if forbidden in command_lower
IsForbidden(command) ==
    LET command_lower == Strip(LowerStr(command)) IN
    \E i \in 1..Len(forbidden_patterns) : Contains(command_lower, forbidden_patterns[i])

\* terminal.py: if '&' in command and not command.strip().endswith('&&')
IsBackgroundAttempt(command) ==
    Contains(command, <<"&">>) /\ ~EndsWith(Strip(command), <<"&", "&">>)

\* terminal.py: run_terminal_cmd(command, is_background, explanation) -> str.
\* is_background is never read and there is no confirmation parameter, so
\* neither flag of the call changes what happens.
terminal_run(call) ==
    IF IsForbidden(call.command) THEN ShortCircuit("str", "blocked")
    ELSE IF IsBackgroundAttempt(call.command) THEN ShortCircuit("str", "blocked_background")
    ELSE SubprocessRun("str", call.duration, call.exit_code, TERMINAL_TIMEOUT)

\* terminal_operations.py: run_terminal_cmd(command, explanation, is_background,
\* require_user_approval) -> dict
terminal_operations_run(call) ==
    IF call.require_user_approval THEN ShortCircuit("dict", "needs_approval")
    ELSE IF call.is_background THEN SubprocessPopen(call.duration)
    ELSE SubprocessRun("dict", call.duration, call.exit_code, OPS_TIMEOUT)

\* tools.py: run_terminal_cmd(command, explanation, is_background,
\* require_user_approval) -> dict
tools_py_run(call) ==
    IF call.require_user_approval THEN ShortCircuit("dict", "needs_approval")
    ELSE SubprocessRun("dict", call.duration, call.exit_code, TOOLS_TIMEOUT)

run_terminal_cmd(call) ==
    CASE call.impl = "terminal" -> terminal_run(call)
      [] call.impl = "terminal_operations" -> terminal_operations_run(call)
      [] call.impl = "tools_py" -> tools_py_run(call)

\* The agent calls run_terminal_cmd with the arguments of its published schema;
\* the command then runs for its duration and ends with its exit code unless the
\* implementation stops it.
RunTerminalCmd ==
    /\ termCall = NoCall
    /\ \E impl \in Implementations, command \in Commands,
          is_background \in BOOLEAN, require_user_approval \in BOOLEAN,
          duration \in Durations, exit_code \in {0, 1} :
        LET call == [op |-> "run_terminal_cmd", impl |-> impl, command |-> command,
                     is_background |-> is_background,
                     require_user_approval |-> require_user_approval,
                     duration |-> duration, exit_code |-> exit_code]
            out == run_terminal_cmd(call)
        IN /\ out.proc.background => bgProcs < MaxProcs
           /\ termCall' = call
           /\ termResult' = out.result
           /\ proc' = out.proc
    /\ UNCHANGED bgProcs
    /\ UNCHANGED notTerm

\* The commands the blocked-command notice of terminal.py lists as allowed:
\* "npm install <package>" and "npm ci", alone or behind "cd app &&"
NpmInstall == <<"n", "p", "m", " ", "i", "n", "s", "t", "a", "l", "l", " ">>
NpmCi == <<"n", "p", "m", " ", "c", "i">>
ChainTo == <<"c", "d", " ", "a", "p", "p", " ", "&", "&", " ">>
PackageNames ==
    {<<"r", "e", "a", "c", "t">>, <<"v", "i", "t", "e">>,
     <<"n", "e", "x", "t">>, <<"a", "x", "i", "o", "s">>}

AllowedCommands ==
    LET plain == {NpmInstall \o package : package \in PackageNames} \cup {NpmCi}
    IN plain \cup {ChainTo \o command : command \in plain}

\* The agent calls run_terminal_cmd with a command of the allowed list.
RunAllowedCmd ==
    /\ termCall = NoCall
    /\ \E impl \in Implementations, command \in AllowedCommands,
          is_background \in BOOLEAN, require_user_approval \in BOOLEAN,
          duration \in Durations, exit_code \in {0, 1} :
        LET call == [op |-> "run_terminal_cmd", impl |-> impl, command |-> command,
                     is_background |-> is_background,
                     require_user_approval |-> require_user_approval,
                     duration |-> duration, exit_code |-> exit_code]
            out == run_terminal_cmd(call)
        IN /\ out.proc.background => bgProcs < MaxProcs
           /\ termCall' = call
           /\ termResult' = out.result
           /\ proc' = out.proc
    /\ UNCHANGED bgProcs
    /\ UNCHANGED notTerm

\* The agent takes the result; a process started with Popen goes on running.
TerminalReturn ==
    /\ termCall # NoCall
    /\ termCall' = NoCall
    /\ termResult' = NoResult
    /\ proc' = NoProc
    /\ bgProcs' = IF proc.background THEN bgProcs + 1 ELSE bgProcs
    /\ UNCHANGED notTerm

\* A process left running ends by itself.
BackgroundExit ==
    /\ bgProcs > 0
    /\ bgProcs' = bgProcs - 1
    /\ UNCHANGED <<termCall, termResult, proc>>
    /\ UNCHANGED notTerm

TermIdle ==
    /\ termCall = NoCall
    /\ termResult = NoResult
    /\ proc = NoProc
    /\ bgProcs = 0

(***************************************************************************)
(* The tool catalog and execute_tool: agents/tools.py, agents/tools/*.py.  *)
(***************************************************************************)
\* The exception classes the operations of the tools raise
ExceptionClasses ==
    {"Exception", "TypeError", "AttributeError", "ValueError", "UnicodeDecodeError",
     "JSONDecodeError", "OSError", "FileNotFoundError", "PermissionError",
     "re.error", "TimeoutExpired"}

\* The base class of an exception class
BaseClass(cls) ==
    CASE cls \in {"UnicodeDecodeError", "JSONDecodeError"} -> "ValueError"
      [] cls \in {"FileNotFoundError", "PermissionError"} -> "OSError"
      [] cls = "Exception" -> "BaseException"
      [] OTHER -> "Exception"

\* "except catches" handles an exception of class cls
RECURSIVE IsInstance(_, _)
IsInstance(cls, catches) ==
    \/ cls = catches
    \/ (cls \in ExceptionClasses /\ IsInstance(BaseClass(cls), catches))

\* tools.py: the TOOLS registry
TOOLS ==
    {"read_file", "write_file", "edit_file", "delete_file", "list_dir", "glob_search",
     "grep_search", "file_search", "run_terminal_cmd", "read_json", "write_json"}

\* A tool the prompt publishes and the registry does not hold
UnknownTools == {"git_commit"}

\* The modules that define the tools: tools.py (behind execute_tool), the package
\* agents/tools/<tool>.py (run_terminal_cmd in terminal.py) and the
\* agents/tools/*_operations.py modules
ToolModules == {"tools_py", "package", "operations"}

Catalog(module) ==
    IF module = "operations" THEN TOOLS \cup {"validate_json"} ELSE TOOLS

\* What a call returns: terminal.py returns a str, every other tool a dict
ResultType(module, tool) ==
    IF module = "package" /\ tool = "run_terminal_cmd" THEN "str" ELSE "dict"

ExceptHandler(catches, error) == [catches |-> catches, error |-> error]

\* The except clauses that close the try block of each tool, in order
Handlers(module, tool) ==
    CASE tool \in {"read_file", "edit_file"} ->
            <<ExceptHandler("FileNotFoundError", "file_not_found"),
              ExceptHandler("Exception", "str_e")>>
      [] tool = "run_terminal_cmd" ->
            <<ExceptHandler("TimeoutExpired", "timeout"),
              ExceptHandler("Exception", "str_e")>>
      [] tool \in {"read_json", "validate_json"} /\ module # "tools_py" ->
            <<ExceptHandler("FileNotFoundError", "file_not_found"),
              ExceptHandler("JSONDecodeError", "invalid_json"),
              ExceptHandler("Exception", "str_e")>>
      [] tool = "write_json" /\ module # "tools_py" ->
            <<ExceptHandler("TypeError", "not_json_serializable"),
              ExceptHandler("Exception", "str_e")>>
      [] OTHER ->
            <<ExceptHandler("Exception", "str_e")>>

\* tools.py: the except clauses of execute_tool
ExecuteToolHandlers ==
    <<ExceptHandler("TypeError", "invalid_arguments"),
      ExceptHandler("Exception", "error_executing_tool")>>

\* The value of a finished call.  keys are the keys of a returned dict (none for
\* a str); success is read only when "success" is a key; error is the kind of
\* the error text, "none" when there is none.
NoToolResult ==
    [raised |-> FALSE, exc |-> "none", type |-> "none", keys |-> {},
     success |-> FALSE, error |-> "none"]

Returned(type, success, error) ==
    [raised |-> FALSE, exc |-> "none", type |-> type,
     keys |-> IF type # "dict" THEN {}
              ELSE IF error = "none" THEN {"success"} ELSE {"success", "error"},
     success |-> success, error |-> error]

\* The exception leaves the function
Raised(cls) ==
    [raised |-> TRUE, exc |-> cls, type |-> "none", keys |-> {},
     success |-> FALSE, error |-> "none"]

\* try/except with only its first except clause
CatchFirstOnly(handlers, cls, type) ==
    IF IsInstance(cls, handlers[1].catches)
    THEN Returned(type, FALSE, handlers[1].error)
    ELSE Raised(cls)

\* try/except: the first clause that matches the exception returns its error
\* result; with no matching clause the exception propagates.
Catch(handlers, cls, type) ==
    IF \E i \in 1..Len(handlers) : IsInstance(cls, handlers[i].catches)
    THEN LET i == CHOOSE j \in 1..Len(handlers) :
                    /\ IsInstance(cls, handlers[j].catches)
                    /\ \A k \in 1..(j - 1) : ~IsInstance(cls, handlers[k].catches)
         IN Returned(type, FALSE, handlers[i].error)
    ELSE Raised(cls)

\* What happens inside the body of a tool:
\*   returns         every operation succeeds
\*   raises          an operation of the try block raises
\*   compile_raises  grep_search: re.compile(query) raises
\*   scan_raises     grep_search: reading one of the files raises
\*   path_missing    delete_file, list_dir: the path does not exist
\*   exits_nonzero   run_terminal_cmd: the command ends with a non-zero exit code
\*   not_run         the body is never entered
EventsOf(tool) ==
    {"returns", "raises"}
        \cup (IF tool = "grep_search" THEN {"compile_raises", "scan_raises"} ELSE {})
        \cup (IF tool \in {"delete_file", "list_dir"} THEN {"path_missing"} ELSE {})
        \cup (IF tool = "run_terminal_cmd" THEN {"exits_nonzero"} ELSE {})

ClassesOf(event) ==
    CASE event = "raises" -> ExceptionClasses
      [] event = "compile_raises" -> {"re.error", "TypeError"}
      [] event = "scan_raises" ->
            {"UnicodeDecodeError", "PermissionError", "FileNotFoundError", "OSError"}
      [] OTHER -> {"none"}

\* grep_search: except (UnicodeDecodeError, PermissionError[, OSError]): continue
SkippedInScan(module, cls) ==
    \/ IsInstance(cls, "UnicodeDecodeError")
    \/ IsInstance(cls, "PermissionError")
    \/ (module # "tools_py" /\ IsInstance(cls, "OSError"))

\* One tool function, from its first statement to its return.  run_terminal_cmd
\* is called in the foreground with approval given; its gates are modelled by
\* run_terminal_cmd(call) above.
ToolBody(module, tool, ev) ==
    LET type == ResultType(module, tool) IN
    CASE ev.event = "returns" -> Returned(type, TRUE, "none")
      [] ev.event = "path_missing" -> Returned(type, FALSE, "not_found")
      [] ev.event = "exits_nonzero" -> Returned(type, FALSE, "none")
      [] ev.event = "scan_raises" /\ SkippedInScan(module, ev.cls) ->
            Returned(type, TRUE, "none")
      [] ev.event = "compile_raises" /\ module # "tools_py" /\ IsInstance(ev.cls, "re.error") ->
            Returned(type, FALSE, "invalid_regex")
      [] OTHER -> Catch(Handlers(module, tool), ev.cls, type)

\* tool_func(**kwargs) binds the arguments and enters the body
Binds(tool_name, shape) ==
    tool_name \in TOOLS /\ shape \notin {"missing_required", "unknown_argument"}

\* How the keyword arguments of a call stand to the signature of the tool
ShapesOf(tool_name) ==
    IF tool_name \notin TOOLS THEN {"valid"}
    ELSE {"valid", "unknown_argument", "wrong_type"}
            \cup (IF tool_name # "list_dir" THEN {"missing_required"} ELSE {})

\* tools.py: execute_tool(tool_name, **kwargs).  tool_func(**kwargs) raises
\* TypeError when a required argument is missing or an argument is unknown; the
\* types of the values are not looked at.
execute_tool(tool_name, shape, ev) ==
    IF tool_name \notin TOOLS THEN Returned("dict", FALSE, "tool_not_found")
    ELSE LET result == IF Binds(tool_name, shape)
                       THEN ToolBody("tools_py", tool_name, ev)
                       ELSE Raised("TypeError")
         IN IF result.raised
            THEN Catch(ExecuteToolHandlers, result.exc, "dict")
            ELSE result

\* A tool is run through the registry.
ExecuteTool ==
    /\ toolCall = NoCall
    /\ \E tool_name \in TOOLS \cup UnknownTools :
       \E shape \in ShapesOf(tool_name) :
       \E event \in IF Binds(tool_name, shape) THEN EventsOf(tool_name) ELSE {"not_run"} :
       \E cls \in ClassesOf(event) :
          /\ toolCall' = [op |-> "execute_tool", module |-> "tools_py", tool |-> tool_name,
                          shape |-> shape, event |-> event, cls |-> cls]
          /\ toolResult' = execute_tool(tool_name, shape, [event |-> event, cls |-> cls])
    /\ UNCHANGED notTools

\* The agent framework calls a tool function of the package or of the
\* *_operations modules with arguments that fit its signature.
CallTool ==
    /\ toolCall = NoCall
    /\ \E module \in ToolModules \ {"tools_py"} :
       \E tool \in Catalog(module) :
       \E event \in EventsOf(tool) :
       \E cls \in ClassesOf(event) :
          /\ toolCall' = [op |-> "call_tool", module |-> module, tool |-> tool,
                          shape |-> "valid", event |-> event, cls |-> cls]
          /\ toolResult' = ToolBody(module, tool, [event |-> event, cls |-> cls])
    /\ UNCHANGED notTools

\* The caller takes the result.
ToolReturn ==
    /\ toolCall # NoCall
    /\ toolCall' = NoCall
    /\ toolResult' = NoToolResult
    /\ UNCHANGED notTools

ToolsIdle ==
    /\ toolCall = NoCall
    /\ toolResult = NoToolResult

(***************************************************************************)
(* The versioned workspace: services/git_service.py,                       *)
(* services/project_service.py, services/filesystem_service.py and the     *)
(* agent tools that write into the project directory.                      *)
(***************************************************************************)
\* The files of a project (none of them matched by .gitignore) and what they hold
Paths == {"src/App.tsx", "src/New.tsx"}
Contents == {"v1", "v2"}
Absent == "absent"

\* What "git revert" leaves behind where it cannot merge: an index entry with
\* conflict stages, and a file with conflict markers
Unmerged == "unmerged"
Conflicted == "<<<<<<<"

\* The project as create_project leaves it: scaffolding written, one ProjectFile
\* row, "Initial commit" made.
InitialTree == [p \in Paths |-> IF p = "src/App.tsx" THEN "v1" ELSE Absent]

\* The tree of the last commit
HeadTree == commits[Len(commits)]

\* GitService.get_diff: "git diff", the tracked files whose working-tree copy
\* differs from the index
get_diff == {p \in Paths : index[p] # Absent /\ worktree[p] # index[p]}

\* Where git fails in commit_changes: nowhere, at "git add" or at "git commit"
GitFaults == {"none", "add", "commit"}

\* "git add file", or "git add ." when no file is named
GitAdd(wt, idx, file) ==
    IF file = "." THEN wt ELSE [idx EXCEPT ![file] = wt[file]]

\* "git add file" exits non-zero: pathspec did not match any files
GitAddFails(wt, idx, file, fault) ==
    \/ fault = "add"
    \/ (file # "." /\ wt[file] = Absent /\ idx[file] = Absent)

\* GitService.commit_changes(project_id, message, files): stage, then commit when
\* "git diff --cached --quiet" finds staged changes; CalledProcessError gives False.
commit_changes(wt, idx, cms, file, fault) ==
    IF GitAddFails(wt, idx, file, fault)
    THEN [ok |-> FALSE, index |-> idx, commits |-> cms]
    ELSE LET staged == GitAdd(wt, idx, file) IN
         IF staged # cms[Len(cms)]
         THEN IF fault = "commit" \/ (\E p \in Paths : staged[p] = Unmerged)
              THEN [ok |-> FALSE, index |-> staged, commits |-> cms]
              ELSE [ok |-> TRUE, index |-> staged, commits |-> Append(cms, staged)]
         ELSE [ok |-> TRUE, index |-> staged, commits |-> cms]

WsCall(op, layer, path, success) ==
    [op |-> op, layer |-> layer, path |-> path, success |-> success]

\* agents/tools/write_file.py: the file is written in the working directory,
\* which chat_service has set to the project directory; git is not called.
AgentWriteFile ==
    /\ wsCall = NoCall
    /\ \E p \in Paths, c \in Contents :
        /\ worktree' = [worktree EXCEPT ![p] = c]
        /\ wsCall' = WsCall("write_file", "agent", p, TRUE)
    /\ UNCHANGED <<index, commits, dbFiles>>
    /\ UNCHANGED notWs

\* agents/tools/write_json.py: json.dump into the file; git is not called.
AgentWriteJson ==
    /\ wsCall = NoCall
    /\ \E p \in Paths, c \in Contents :
        /\ worktree' = [worktree EXCEPT ![p] = c]
        /\ wsCall' = WsCall("write_json", "agent", p, TRUE)
    /\ UNCHANGED <<index, commits, dbFiles>>
    /\ UNCHANGED notWs

\* agents/tools/edit_file.py: a missing file or an old_string that is not found
\* gives success False; otherwise the file is rewritten; git is not called.
AgentEditFile ==
    /\ wsCall = NoCall
    /\ \E p \in Paths, c \in Contents, found \in BOOLEAN :
        IF worktree[p] = Absent \/ ~found
        THEN /\ wsCall' = WsCall("edit_file", "agent", p, FALSE)
             /\ UNCHANGED worktree
        ELSE /\ worktree' = [worktree EXCEPT ![p] = c]
             /\ wsCall' = WsCall("edit_file", "agent", p, TRUE)
    /\ UNCHANGED <<index, commits, dbFiles>>
    /\ UNCHANGED notWs

\* agents/tools/delete_file.py: os.remove when the file exists; git is not called.
AgentDeleteFile ==
    /\ wsCall = NoCall
    /\ \E p \in Paths :
        IF worktree[p] = Absent
        THEN /\ wsCall' = WsCall("delete_file", "agent", p, FALSE)
             /\ UNCHANGED worktree
        ELSE /\ worktree' = [worktree EXCEPT ![p] = Absent]
             /\ wsCall' = WsCall("delete_file", "agent", p, TRUE)
    /\ UNCHANGED <<index, commits, dbFiles>>
    /\ UNCHANGED notWs

\* ProjectService.add_file_to_project: row, FileSystemService.write_file,
\* GitService.commit_changes(..., [filepath]) whose result is dropped.
AddFileToProject ==
    /\ wsCall = NoCall
    /\ \E p \in Paths, c \in Contents, fault \in GitFaults :
        LET written == [worktree EXCEPT ![p] = c]
            out == commit_changes(written, index, commits, p, fault)
        IN /\ Len(out.commits) <= MaxCommits
           /\ dbFiles' = dbFiles \cup {p}
           /\ worktree' = written
           /\ index' = out.index
           /\ commits' = out.commits
           /\ wsCall' = WsCall("add_file_to_project", "service", p, TRUE)
    /\ UNCHANGED notWs

\* ProjectService.update_file: 404 without a row; FileSystemService.write_file,
\* GitService.commit_changes(..., [filepath]) whose result is dropped.
UpdateFile ==
    /\ wsCall = NoCall
    /\ \E p \in Paths, c \in Contents, fault \in GitFaults :
        IF p \notin dbFiles
        THEN /\ wsCall' = WsCall("update_file", "service", p, FALSE)
             /\ UNCHANGED <<worktree, index, commits, dbFiles>>
        ELSE LET written == [worktree EXCEPT ![p] = c]
                 out == commit_changes(written, index, commits, p, fault)
             IN /\ Len(out.commits) <= MaxCommits
                /\ worktree' = written
                /\ index' = out.index
                /\ commits' = out.commits
                /\ wsCall' = WsCall("update_file", "service", p, TRUE)
                /\ UNCHANGED dbFiles
    /\ UNCHANGED notWs

\* ProjectService.delete_file: 404 without a row; FileSystemService.delete_file,
\* the row deleted, GitService.commit_changes(...) of everything, result dropped.
DeleteFile ==
    /\ wsCall = NoCall
    /\ \E p \in Paths, fault \in GitFaults :
        IF p \notin dbFiles
        THEN /\ wsCall' = WsCall("delete_file", "service", p, FALSE)
             /\ UNCHANGED <<worktree, index, commits, dbFiles>>
        ELSE LET removed == [worktree EXCEPT ![p] = Absent]
                 out == commit_changes(removed, index, commits, ".", fault)
             IN /\ Len(out.commits) <= MaxCommits
                /\ worktree' = removed
                /\ dbFiles' = dbFiles \ {p}
                /\ index' = out.index
                /\ commits' = out.commits
                /\ wsCall' = WsCall("delete_file", "service", p, TRUE)
    /\ UNCHANGED notWs

EmptyTree == [p \in Paths |-> Absent]

\* The tree of the parent of the h-th commit; the first commit has none
ParentTree(cms, h) == IF h = 1 THEN EmptyTree ELSE cms[h - 1]

\* The three-way merge of one path: base, ours, theirs.  The content of a file
\* is one value, so two different changes to a file collide.
Merge3(base, ours, theirs) ==
    IF base = theirs THEN ours
    ELSE IF ours = base THEN theirs
    ELSE IF ours = theirs THEN ours
    ELSE Unmerged

\* The file a collision leaves in the working tree: conflict markers when both
\* sides hold the file, else the side that holds it
ConflictFile(ours, theirs) ==
    IF ours # Absent /\ theirs # Absent THEN Conflicted
    ELSE IF ours = Absent THEN theirs ELSE ours

\* "git reset --hard <commit_hash>" in place of the revert
RestoreByReset(wt, idx, cms, h, fault) ==
    IF h \notin 1..Len(cms)
    THEN [ok |-> FALSE, worktree |-> wt, index |-> idx, commits |-> cms]
    ELSE [ok |-> TRUE, worktree |-> cms[h], index |-> cms[h], commits |-> SubSeq(cms, 1, h)]

\* GitService.restore_commit(project_id, commit_hash):
\* "git revert --no-commit <commit_hash>", then "git commit -m Restore ...";
\* CalledProcessError gives False.  The revert merges, path by path, the change
\* from the commit to its parent into the index: it stops before it writes
\* when the hash is unknown, when the index is unmerged or when a path it has to
\* write has local changes; it writes and fails when paths collide.  The commit
\* fails when nothing is staged.
restore_commit(wt, idx, cms, h, fault) ==
    LET unchanged == [ok |-> FALSE, worktree |-> wt, index |-> idx, commits |-> cms]
    IN
    IF h \notin 1..Len(cms) \/ (\E p \in Paths : idx[p] = Unmerged) THEN unchanged
    ELSE
    LET merged == [p \in Paths |-> Merge3(cms[h][p], idx[p], ParentTree(cms, h)[p])]
        touched == {p \in Paths : merged[p] # idx[p]}
        reverted == [p \in Paths |->
                        IF merged[p] = Unmerged
                        THEN ConflictFile(idx[p], ParentTree(cms, h)[p])
                        ELSE IF p \in touched THEN merged[p] ELSE wt[p]]
    IN
    IF \E p \in touched : wt[p] # idx[p] THEN unchanged
    ELSE IF \E p \in Paths : merged[p] = Unmerged
    THEN [ok |-> FALSE, worktree |-> reverted, index |-> merged, commits |-> cms]
    ELSE IF merged = cms[Len(cms)] \/ fault = "commit"
    THEN [ok |-> FALSE, worktree |-> reverted, index |-> merged, commits |-> cms]
    ELSE [ok |-> TRUE, worktree |-> reverted, index |-> merged,
          commits |-> Append(cms, merged)]

\* GitService.commit_changes is called for one file or, with files=None, for
\* everything.
CommitChanges ==
    /\ wsCall = NoCall
    /\ \E file \in Paths \cup {"."}, fault \in GitFaults :
        LET out == commit_changes(worktree, index, commits, file, fault)
        IN /\ Len(out.commits) <= MaxCommits
           /\ index' = out.index
           /\ commits' = out.commits
           /\ wsCall' = WsCall("commit_changes", "service", file, out.ok)
    /\ UNCHANGED <<worktree, dbFiles>>
    /\ UNCHANGED notWs

\* GitService.restore_commit is called with a hash of the history, or with a
\* hash git does not know (0).
RestoreCommit ==
    /\ wsCall = NoCall
    /\ \E h \in 0..Len(commits), fault \in {"none", "commit"} :
        LET out == restore_commit(worktree, index, commits, h, fault)
        IN /\ Len(out.commits) <= MaxCommits
           /\ worktree' = out.worktree
           /\ index' = out.index
           /\ commits' = out.commits
           /\ wsCall' = [op |-> "restore_commit", layer |-> "service", hash |-> h,
                         success |-> out.ok]
    /\ UNCHANGED dbFiles
    /\ UNCHANGED notWs

\* The caller takes the result of the operation.
WsReturn ==
    /\ wsCall # NoCall
    /\ wsCall' = NoCall
    /\ UNCHANGED <<worktree, index, commits, dbFiles>>
    /\ UNCHANGED notWs

WsIdle ==
    /\ worktree = InitialTree
    /\ index = InitialTree
    /\ commits = <<InitialTree>>
    /\ dbFiles = {"src/App.tsx"}
    /\ wsCall = NoCall

(***************************************************************************)
(* The chat stream: api/chat.py, send_chat_message_stream.event_generator. *)
(* ChatService.process_chat_message_stream, the agent run that feeds it,   *)
(* is an asynchronous generator: it yields events one at a time, each      *)
(* after some wait, and then ends or raises.                               *)
(***************************************************************************)
\* The keep-alive interval of event_generator, in seconds
HEARTBEAT_INTERVAL == 15

\* The longest silence looked at
MaxSilence == HEARTBEAT_INTERVAL + 2

\* The events of an agent run and the messages of its exceptions
AgentEvents == {"thought", "tool_call", "tool_result"}
ErrorMessages == {"model call failed"}

NoEvent == "none"

\* yield ": keep-alive\n\n"
KeepAliveFrame == [kind |-> "comment", type |-> "keep-alive", message |-> ""]

\* yield f"data: {json.dumps(event)}\n\n"
DataFrame(event) == [kind |-> "data", type |-> event, message |-> ""]

\* error_event = {"type": "error", "data": {"message": str(e)}}
ErrorFrame(message) == [kind |-> "data", type |-> "error", message |-> message]

\* A loop body that sends the keep-alive in place of the event
LoopBodyKeepAliveOnly(sent, event, since) ==
    IF since > HEARTBEAT_INTERVAL
    THEN Append(sent, KeepAliveFrame)
    ELSE Append(sent, DataFrame(event))

\* The body of "async for event in ...": a keep-alive when more than 15 seconds
\* have passed since last_heartbeat, then the event as a data frame.
LoopBody(sent, event, since) ==
    Append(IF since > HEARTBEAT_INTERVAL THEN Append(sent, KeepAliveFrame) ELSE sent,
           DataFrame(event))

\* An except clause that sends nothing
OnExceptionSilent(sent, message) == sent

\* except Exception as e: the error event is sent
OnException(sent, message) == Append(sent, ErrorFrame(message))

\* The request arrives: last_heartbeat = dt.now() and the generator starts to
\* wait for the first event.
OpenStream ==
    /\ streamPc = "idle"
    /\ streamPc' = "awaiting"
    /\ produced' = <<>>
    /\ frames' = <<>>
    /\ sinceHeartbeat' = 0
    /\ silence' = 0
    /\ UNCHANGED <<pending, streamError>>
    /\ UNCHANGED notStream

\* A second passes while the generator waits for the agent run.
Tick ==
    /\ streamPc = "awaiting"
    /\ silence < MaxSilence
    /\ sinceHeartbeat' = sinceHeartbeat + 1
    /\ silence' = silence + 1
    /\ UNCHANGED <<streamPc, produced, pending, frames, streamError>>
    /\ UNCHANGED notStream

\* The agent run yields its next event.
ProducerYields ==
    /\ streamPc = "awaiting"
    /\ Len(produced) < MaxEvents
    /\ \E event \in AgentEvents :
        /\ produced' = Append(produced, event)
        /\ pending' = event
    /\ streamPc' = "received"
    /\ UNCHANGED <<frames, sinceHeartbeat, silence, streamError>>
    /\ UNCHANGED notStream

\* The loop body runs for the event received, and the generator waits again.
SendEvent ==
    /\ streamPc = "received"
    /\ frames' = LoopBody(frames, pending, sinceHeartbeat)
    /\ pending' = NoEvent
    /\ sinceHeartbeat' = 0
    /\ silence' = 0
    /\ streamPc' = "awaiting"
    /\ UNCHANGED <<produced, streamError>>
    /\ UNCHANGED notStream

\* The agent run ends: the loop and the stream end.
ProducerEnds ==
    /\ streamPc = "awaiting"
    /\ streamPc' = "closed"
    /\ UNCHANGED <<produced, pending, frames, sinceHeartbeat, silence, streamError>>
    /\ UNCHANGED notStream

\* The agent run raises while the generator waits for its next event.
ProducerRaises ==
    /\ streamPc = "awaiting"
    /\ \E message \in ErrorMessages : streamError' = message
    /\ streamPc' = "failed"
    /\ UNCHANGED <<produced, pending, frames, sinceHeartbeat, silence>>
    /\ UNCHANGED notStream

\* The except clause of the generator runs, and the stream ends.
SendError ==
    /\ streamPc = "failed"
    /\ frames' = OnException(frames, streamError)
    /\ silence' = IF frames' # frames THEN 0 ELSE silence
    /\ streamPc' = "closed"
    /\ UNCHANGED <<produced, pending, sinceHeartbeat, streamError>>
    /\ UNCHANGED notStream

NoStreamError == ""

\* The response is complete.
CloseStream ==
    /\ streamPc = "closed"
    /\ streamPc' = "idle"
    /\ produced' = <<>>
    /\ frames' = <<>>
    /\ pending' = NoEvent
    /\ sinceHeartbeat' = 0
    /\ silence' = 0
    /\ streamError' = NoStreamError
    /\ UNCHANGED notStream

StreamIdle ==
    /\ streamPc = "idle"
    /\ produced = <<>>
    /\ pending = NoEvent
    /\ frames = <<>>
    /\ sinceHeartbeat = 0
    /\ silence = 0
    /\ streamError = NoStreamError

(***************************************************************************)
(* The chat history of one session: services/chat_service.py               *)
(* (add_message, get_messages) and reconnect_to_session of api/chat.py.    *)
(* A message is its id; chatMessages holds the rows of the session in the  *)
(* order of created_at.                                                    *)
(***************************************************************************)
\* The limit reconnect_to_session passes to get_messages
RECONNECT_LIMIT == 1000

MaxMessages == RECONNECT_LIMIT + MaxExtra

\* The rows of a session that has n messages: ids grow with created_at
Rows(n) == [i \in 1..n |-> i]

\* ChatService.get_messages(db, session_id, limit):
\* order_by(ChatMessage.created_at).limit(limit).all()
get_messages(rows, limit) ==
    IF Len(rows) <= limit THEN rows ELSE SubSeq(rows, 1, limit)

\* reconnect_to_session(project_id, session_id, since_message_id)
reconnect_to_session(rows, since_message_id) ==
    LET all_messages == get_messages(rows, RECONNECT_LIMIT)
        new_messages == SelectSeq(all_messages, LAMBDA id : id > since_message_id)
    IN [new_messages |-> new_messages,
        total_messages |-> Len(all_messages),
        has_more |-> Len(new_messages) > 0]

\* ChatService.add_message: one more row, with the next id
AddMessage ==
    /\ reconCall = NoCall
    /\ Len(chatMessages) < MaxMessages
    /\ chatMessages' = Append(chatMessages, Len(chatMessages) + 1)
    /\ UNCHANGED reconCall
    /\ UNCHANGED notRecon

\* GET /{project_id}/sessions/{session_id}/reconnect?since_message_id=k
Reconnect ==
    /\ reconCall = NoCall
    /\ \E since_message_id \in 0..(Len(chatMessages) + 1) :
        reconCall' = [op |-> "reconnect", since |-> since_message_id,
                      response |-> reconnect_to_session(chatMessages, since_message_id)]
    /\ UNCHANGED chatMessages
    /\ UNCHANGED notRecon

\* The client takes the response.
ReconnectReturn ==
    /\ reconCall # NoCall
    /\ reconCall' = NoCall
    /\ UNCHANGED chatMessages
    /\ UNCHANGED notRecon

ReconIdle ==
    /\ chatMessages = <<>>
    /\ reconCall = NoCall

(***************************************************************************)
(* The search tools: grep_search and file_search of agents/tools.py, of    *)
(* the package agents/tools and of agents/tools/search_operations.py.      *)
(***************************************************************************)
\* The limits of grep_search and of file_search
GREP_LIMIT == 50
FILE_SEARCH_LIMIT == 10

\* A file grep_search reads is the number of its lines that match the query
\* (its first lines; the lines after them do not matter).
MatchCounts == {0, 1, GREP_LIMIT - 1, GREP_LIMIT, GREP_LIMIT + 1}

Min(a, b) == IF a < b THEN a ELSE b

\* grep_search: the loop over the lines of the file_no-th file, which appends
\* every matching line and breaks once the results have reached the limit
ScanFile(file_no, matching, results) ==
    LET appended == IF matching = 0 THEN 0
                    ELSE IF Len(results) >= GREP_LIMIT THEN 1
                    ELSE Min(matching, GREP_LIMIT - Len(results))
    IN results \o [line_num \in 1..appended |-> [file |-> file_no, line |-> line_num]]

\* The package and search_operations.py leave the loop over the files when the
\* results have reached the limit; tools.py has no such test.
BreaksFileLoop(module) == module # "tools_py"

\* grep_search: the loop over the files, from the file_no-th on
RECURSIVE GrepFiles(_, _, _, _)
GrepFiles(module, files, file_no, results) ==
    IF file_no > Len(files) THEN results
    ELSE LET scanned == ScanFile(file_no, files[file_no], results)
         IN IF BreaksFileLoop(module) /\ Len(scanned) >= GREP_LIMIT
            THEN scanned
            ELSE GrepFiles(module, files, file_no + 1, scanned)

\* grep_search(query, ...): a query that does not compile gives an error result
grep_search(module, files, compiles) ==
    IF ~compiles
    THEN [success |-> FALSE, results |-> <<>>, keys |-> {"success", "error"}]
    ELSE [success |-> TRUE, results |-> GrepFiles(module, files, 1, <<>>),
          keys |-> {"success", "query", "results", "count"}
                      \cup (IF module # "tools_py" THEN {"truncated"} ELSE {})]

\* What glob("**/*") lists: files and directories whose path holds the query,
\* and paths that do not hold it
PathKinds == {"file_hit", "dir_hit", "miss"}

\* The listings looked at: a pattern of kinds, repeated
ListingPatterns ==
    {<<"file_hit">>, <<"miss">>, <<"dir_hit">>, <<"file_hit", "miss">>,
     <<"dir_hit", "file_hit">>, <<"miss", "file_hit", "dir_hit">>}

Listing(pattern, n) == [i \in 1..n |-> pattern[((i - 1) % Len(pattern)) + 1]]

MaxPaths == 2 * FILE_SEARCH_LIMIT + MaxExtra

\* file_search: tools.py matches every path, the other two modules only files
PathMatches(module, kind) ==
    kind = "file_hit" \/ (module = "tools_py" /\ kind = "dir_hit")

\* file_search(query): the loop over the listing, which appends every match
\* and breaks once the matches have reached the limit
file_search(module, listing) ==
    LET hits == SelectSeq([i \in 1..Len(listing) |-> i],
                          LAMBDA i : PathMatches(module, listing[i]))
        matches == IF Len(hits) <= FILE_SEARCH_LIMIT THEN hits
                   ELSE SubSeq(hits, 1, FILE_SEARCH_LIMIT)
    IN [success |-> TRUE, results |-> matches,
        keys |-> {"success", "query", "matches", "count"}
                    \cup (IF module # "tools_py" THEN {"truncated"} ELSE {})]

\* grep_search is called.
GrepSearch ==
    /\ searchCall = NoCall
    /\ \E module \in ToolModules, n \in 0..MaxFiles, compiles \in BOOLEAN :
       \E files \in [1..n -> MatchCounts] :
          searchCall' = [op |-> "grep_search", module |-> module, input |-> files,
                         result |-> grep_search(module, files, compiles)]
    /\ UNCHANGED notSearch

\* file_search is called.
FileSearch ==
    /\ searchCall = NoCall
    /\ \E module \in ToolModules, pattern \in ListingPatterns, n \in 0..MaxPaths :
          searchCall' = [op |-> "file_search", module |-> module,
                         input |-> Listing(pattern, n),
                         result |-> file_search(module, Listing(pattern, n))]
    /\ UNCHANGED notSearch

\* The files a project directory may hold, as path components below the
\* working directory
ProjectFiles ==
    {<<"README.md">>, <<"src", "App.tsx">>, <<"node_modules", "react", "index.js">>,
     <<"dist", "bundle.js">>, <<".git", "config">>, <<"src", "build", "gen.ts">>}

\* Names glob does not match with a wildcard
HiddenNames == {".git", ".venv", ".next"}

\* The directories of a tree: the proper prefixes of its files
DirsOf(tree) ==
    UNION {{SubSeq(path, 1, n) : n \in 1..(Len(path) - 1)} : path \in tree}

\* The patterns looked at: everything, and the entries of .git
GlobPatterns == {"**/*", ".git/*"}

\* glob.glob(pattern, recursive=True): files and directories alike; a wildcard
\* does not match a name that starts with a dot
Glob(tree, pattern) ==
    IF pattern = "**/*"
    THEN {path \in tree \cup DirsOf(tree) :
              \A i \in 1..Len(path) : path[i] \notin HiddenNames}
    ELSE {path \in tree \cup DirsOf(tree) : Len(path) = 2 /\ path[1] = ".git"}

\* exclude_dirs of grep_search: the package has the list, search_operations.py
\* a shorter one, tools.py none
exclude_dirs(module) ==
    CASE module = "package" ->
            {".git", "node_modules", "__pycache__", ".venv", "venv",
             "dist", "build", ".next", "out", "coverage"}
      [] module = "operations" ->
            {".git", "node_modules", "__pycache__", ".venv", "venv", "dist", "build"}
      [] OTHER -> {}

\* any(exc_dir in file_path.split(os.sep) for exc_dir in exclude_dirs)
InExcludedDir(path, dirs) == \E i \in 1..Len(path) : path[i] \in dirs

\* grep_search: the files of the results, for a query every file holds
GrepPaths(module, tree, pattern) ==
    {path \in Glob(tree, pattern) :
        /\ ~InExcludedDir(path, exclude_dirs(module))
        /\ path \in tree}

\* file_search: the matches, for a query every path holds; tools.py does not
\* test os.path.isfile
FileSearchPaths(module, tree) ==
    {path \in Glob(tree, "**/*") : module = "tools_py" \/ path \in tree}

\* glob_search(pattern): the matches
GlobSearchPaths(module, tree, pattern) == Glob(tree, pattern)

ScanCall(tool, module, paths) ==
    [op |-> "scan", tool |-> tool, module |-> module, paths |-> paths]

\* glob_search is called in a project directory.
ScanGlobSearch ==
    /\ searchCall = NoCall
    /\ \E module \in ToolModules, tree \in SUBSET ProjectFiles, pattern \in GlobPatterns :
          searchCall' = ScanCall("glob_search", module, GlobSearchPaths(module, tree, pattern))
    /\ UNCHANGED notSearch

\* grep_search is called in a project directory.
ScanGrepSearch ==
    /\ searchCall = NoCall
    /\ \E module \in ToolModules, tree \in SUBSET ProjectFiles, pattern \in GlobPatterns :
          searchCall' = ScanCall("grep_search", module, GrepPaths(module, tree, pattern))
    /\ UNCHANGED notSearch

\* file_search is called in a project directory.
ScanFileSearch ==
    /\ searchCall = NoCall
    /\ \E module \in ToolModules, tree \in SUBSET ProjectFiles :
          searchCall' = ScanCall("file_search", module, FileSearchPaths(module, tree))
    /\ UNCHANGED notSearch

\* The agent takes the result.
SearchReturn ==
    /\ searchCall # NoCall
    /\ searchCall' = NoCall
    /\ UNCHANGED notSearch

SearchIdle == searchCall = NoCall

(***************************************************************************)
(* Chat requests: ChatService.process_chat_message of                      *)
(* services/chat_service.py, called for several requests on one event      *)
(* loop.  A call runs without interruption up to                           *)
(* "await orchestrator.main_team.run(...)"; while it waits there the other *)
(* calls run.  The agent run is the team of the orchestrator: it takes     *)
(* turns, its tools act on relative paths, and it ends, raises or is       *)
(* cancelled.                                                              *)
(***************************************************************************)
Requests == 1..MaxRequests
Projects == {"A", "B"}

\* The directory the server was started in
BaseDir == "backend"

\* project_dir = Path(settings.PROJECTS_BASE_DIR) / f"project_{project_id}"
ProjectDir(project_id) == IF project_id = "A" THEN "project_A" ELSE "project_B"

NoWrite == [project |-> "none", dir |-> "none"]

NoRequest ==
    [pc |-> "idle", project |-> "none", original_cwd |-> "none", turns |-> 0,
     messages |-> <<>>]

\* ChatService.add_message for the session of the call: the role and the kind
\* of content
Message(role, content) == [role |-> role, content |-> content]

\* How get_orchestrator() ends: it returns the singleton, raises ValueError
\* because the API key is not configured, or raises another exception out of
\* the constructor (the model client, an agent), which no clause catches
OrchestratorOutcomes == {"returns", "ValueError", "Exception"}

\* An except clause that runs the team again
RetryOnRunException(req) ==
    [req EXCEPT !.pc = "running", !.turns = 0, !.original_cwd = req.original_cwd]

\* except Exception as e: the error message is saved and returned
OnRunException(req) ==
    [req EXCEPT !.pc = "failed",
                !.messages = Append(@, Message("assistant", "I encountered an error"))]

\* The call up to the await: the session is resolved or created, the user
\* message saved, the orchestrator fetched, original_cwd read and the working
\* directory changed to the project directory.
StartRequest(r) ==
    /\ reqs[r].pc = "idle"
    /\ \E project_id \in Projects, outcome \in OrchestratorOutcomes :
        LET saved == [NoRequest EXCEPT !.project = project_id,
                                       !.messages = <<Message("user", "request")>>]
        IN IF outcome = "ValueError"
           THEN /\ reqs' = [reqs EXCEPT ![r] =
                              [saved EXCEPT !.pc = "returned",
                                            !.messages = Append(@, Message("assistant", "str(e)"))]]
                /\ UNCHANGED cwd
           ELSE IF outcome = "Exception"
           THEN /\ reqs' = [reqs EXCEPT ![r] = [saved EXCEPT !.pc = "raised"]]
                /\ UNCHANGED cwd
           ELSE /\ reqs' = [reqs EXCEPT ![r] =
                              [saved EXCEPT !.pc = "running", !.original_cwd = cwd]]
                /\ cwd' = ProjectDir(project_id)
    /\ UNCHANGED lastWrite
    /\ UNCHANGED notChat

\* How a run may stop after so many turns: with the completion marker, or with
\* its total-turn budget used up
StopReasons(turns) ==
    {"done"} \cup (IF turns = MaxTurns THEN {"budget"} ELSE {})

\* The team takes a turn for the request; a tool of the turn may write a file
\* under a relative path, which the process resolves in its working directory.
AgentTurn(r) ==
    /\ reqs[r].pc = "running"
    /\ reqs[r].turns < MaxTurns
    /\ reqs' = [reqs EXCEPT ![r].turns = @ + 1]
    /\ \E writes \in BOOLEAN :
        lastWrite' = IF writes
                     THEN [project |-> reqs[r].project, dir |-> cwd]
                     ELSE lastWrite
    /\ UNCHANGED cwd
    /\ UNCHANGED notChat

\* The run ends, with the completion marker or with its budget used up: the
\* finally clause restores original_cwd, and the last message of the team is
\* saved as the assistant message.
RunReturns(r) ==
    /\ reqs[r].pc = "running"
    /\ cwd' = reqs[r].original_cwd
    /\ \E stop \in StopReasons(reqs[r].turns) :
        /\ reqs' = [reqs EXCEPT ![r].pc = IF stop = "done" THEN "done" ELSE "failed",
                                ![r].messages = Append(@, Message("assistant", "response"))]
    /\ UNCHANGED lastWrite
    /\ UNCHANGED notChat

\* The run raises: the finally clause restores original_cwd and the except
\* clause saves the error message.
RunRaises(r) ==
    /\ reqs[r].pc = "running"
    /\ cwd' = reqs[r].original_cwd
    /\ reqs' = [reqs EXCEPT ![r] = OnRunException(reqs[r])]
    /\ UNCHANGED lastWrite
    /\ UNCHANGED notChat

\* The task of the request is cancelled while it waits for the run:
\* CancelledError is no Exception, so only the finally clause runs.
RunCancelled(r) ==
    /\ reqs[r].pc = "running"
    /\ cwd' = reqs[r].original_cwd
    /\ reqs' = [reqs EXCEPT ![r].pc = "cancelled"]
    /\ UNCHANGED lastWrite
    /\ UNCHANGED notChat

Terminal == {"returned", "done", "failed", "cancelled", "raised"}

\* The project a client works on, when every client has a project of its own
ProjectOf(r) == IF r % 2 = 1 THEN "A" ELSE "B"

\* A request for the project of its client
StartOwnProject(r) ==
    /\ StartRequest(r)
    /\ reqs'[r].project = ProjectOf(r)

\* A request that starts while no other call waits for its run
StartAlone(r) ==
    /\ \A q \in Requests \ {r} : reqs[q].pc # "running"
    /\ StartRequest(r)

\* The caller has the response (or the exception) of the call.
RequestReturn(r) ==
    /\ reqs[r].pc \in Terminal
    /\ reqs' = [reqs EXCEPT ![r] = NoRequest]
    /\ lastWrite' = IF \A q \in Requests \ {r} : reqs[q].pc = "idle"
                    THEN NoWrite ELSE lastWrite
    /\ UNCHANGED cwd
    /\ UNCHANGED notChat

ChatIdle ==
    /\ cwd = BaseDir
    /\ reqs = [r \in Requests |-> NoRequest]
    /\ lastWrite = NoWrite

(***************************************************************************)
(* The agent loop of one run: the Planner plans, delegates a task to the   *)
(* Coder, the Coder calls tools, the Planner reviews.  The repeated-failure *)
(* rule is the FAILURE DETECTION rule of the Planner's system message.      *)
(***************************************************************************)
LoopTools == {"write_file", "edit_file", "run_terminal_cmd"}
ToolErrors == {"E1", "E2"}

NoFailure == [tool |-> "none", error |-> "none"]

NoLoop ==
    [state |-> "IDLE", calls |-> 0, call |-> NoFailure, last |-> NoFailure,
     same_errors |-> 0, instruction |-> "none"]

\* A Planner that changes approach only when the same error has come a third time
FailureDetectionAtThird(same_errors) ==
    IF same_errors >= 3 THEN "change_strategy"
    ELSE IF same_errors >= 1 THEN "adapt"
    ELSE "proceed"

\* "If Coder gets same error 2+ times in a row: STOP the current approach
\* immediately; change strategy".  "If something fails ONCE, adapt the plan".
FailureDetection(same_errors) ==
    IF same_errors >= 2 THEN "change_strategy"
    ELSE IF same_errors = 1 THEN "adapt"
    ELSE "proceed"

\* The user's request reaches the loop.
LoopStart ==
    /\ loop.state = "IDLE"
    /\ loop' = [NoLoop EXCEPT !.state = "PLANNING"]
    /\ UNCHANGED notLoop

\* PLANNING: the Planner produces or updates the plan; an instruction to
\* change strategy goes with the plan to the Coder.
Plan ==
    /\ loop.state = "PLANNING"
    /\ loop' = [loop EXCEPT !.state = "DELEGATING"]
    /\ UNCHANGED notLoop

\* DELEGATING: the next task is handed to the Coder.
Delegate ==
    /\ loop.state = "DELEGATING"
    /\ loop' = [loop EXCEPT !.state = "EXECUTING"]
    /\ UNCHANGED notLoop

\* The tools the Coder may call next: under the instruction to change strategy,
\* not the tool that has just failed twice
CoderTools ==
    IF loop.instruction = "change_strategy" THEN LoopTools \ {loop.last.tool}
    ELSE LoopTools

\* EXECUTING: a tool call of the Coder succeeds.
ToolSucceeds ==
    /\ loop.state = "EXECUTING"
    /\ loop.calls < MaxCalls
    /\ \E tool \in CoderTools :
        loop' = [loop EXCEPT !.calls = @ + 1,
                             !.call = [tool |-> tool, error |-> "none"],
                             !.last = NoFailure,
                             !.same_errors = 0,
                             !.instruction = "none"]
    /\ UNCHANGED notLoop

\* EXECUTING: a tool call of the Coder fails.  The same tool/error pair as the
\* failure before it counts as a repetition; the rule of the Planner decides
\* whether the loop goes back to PLANNING.
ToolFails ==
    /\ loop.state = "EXECUTING"
    /\ loop.calls < MaxCalls
    /\ \E tool \in CoderTools, error \in ToolErrors :
        LET pair == [tool |-> tool, error |-> error]
            same_errors == IF pair = loop.last THEN loop.same_errors + 1 ELSE 1
            change == FailureDetection(same_errors) = "change_strategy"
        IN loop' = [loop EXCEPT !.calls = @ + 1,
                                !.call = pair,
                                !.last = pair,
                                !.same_errors = same_errors,
                                !.instruction = IF change THEN "change_strategy" ELSE "none",
                                !.state = IF change THEN "PLANNING" ELSE "EXECUTING"]
    /\ UNCHANGED notLoop

\* EXECUTING: the Coder answers without a tool call.
CoderAnswers ==
    /\ loop.state = "EXECUTING"
    /\ loop' = [loop EXCEPT !.state = "REVIEWING"]
    /\ UNCHANGED notLoop

\* EXECUTING: the tool calls of the run are used up.
CallsExhausted ==
    /\ loop.state = "EXECUTING"
    /\ loop.calls = MaxCalls
    /\ loop' = [loop EXCEPT !.state = "FAILED"]
    /\ UNCHANGED notLoop

\* REVIEWING: the Planner marks the task, and goes on with the next task, plans
\* again, or ends the run.
Review ==
    /\ loop.state = "REVIEWING"
    /\ \E next \in {"DELEGATING", "PLANNING", "DONE"} :
        loop' = [loop EXCEPT !.state = next]
    /\ UNCHANGED notLoop

\* The run has ended; the loop is ready for the next request.
LoopReturn ==
    /\ loop.state \in {"DONE", "FAILED"}
    /\ loop' = NoLoop
    /\ UNCHANGED notLoop

LoopIdle == loop = NoLoop

\* The components added after the first four, at rest
RestIdle == StreamIdle /\ ReconIdle /\ SearchIdle /\ ChatIdle /\ LoopIdle

InitTools == ToolsIdle /\ EditIdle /\ TermIdle /\ WsIdle /\ RestIdle

NextTools == ExecuteTool \/ CallTool \/ ToolReturn

SpecTools == InitTools /\ [][NextTools]_vars

InitWorkspace == WsIdle /\ EditIdle /\ TermIdle /\ ToolsIdle /\ RestIdle

NextWorkspace ==
    \/ AgentWriteFile
    \/ AgentWriteJson
    \/ AgentEditFile
    \/ AgentDeleteFile
    \/ AddFileToProject
    \/ UpdateFile
    \/ DeleteFile
    \/ WsReturn

SpecWorkspace == InitWorkspace /\ [][NextWorkspace]_vars

\* The history of a project under commit_changes and restore_commit, the agent
\* writing files in between
NextRestore ==
    \/ AgentWriteFile
    \/ CommitChanges
    \/ RestoreCommit
    \/ WsReturn

SpecRestore == InitWorkspace /\ [][NextRestore]_vars

InitTerminal == TermIdle /\ EditIdle /\ ToolsIdle /\ WsIdle /\ RestIdle

NextTerminal == RunTerminalCmd \/ TerminalReturn \/ BackgroundExit

SpecTerminal == InitTerminal /\ [][NextTerminal]_vars

\* run_terminal_cmd under the commands of the allowed list
NextAllowed == RunAllowedCmd \/ TerminalReturn \/ BackgroundExit

SpecAllowed == InitTerminal /\ [][NextAllowed]_vars

InitEdit ==
    /\ fileBytes \in Strings(Alphabet, MaxLen) \cup {NoFile}
    /\ editCall = NoCall
    /\ undo = [active |-> FALSE]
    /\ TermIdle
    /\ ToolsIdle
    /\ WsIdle
    /\ RestIdle

NextEdit == EditFile \/ EditSwapped \/ EditReturn

SpecEdit == InitEdit /\ [][NextEdit]_vars

InitEditSpaces ==
    /\ fileBytes \in Strings(SpaceAlphabet, MaxLen)
    /\ editCall = NoCall
    /\ undo = [active |-> FALSE]
    /\ TermIdle
    /\ ToolsIdle
    /\ WsIdle
    /\ RestIdle

NextEditSpaces == EditFileSpaces \/ EditReturn

SpecEditSpaces == InitEditSpaces /\ [][NextEditSpaces]_vars

InitEditLines ==
    /\ fileBytes \in {BlankLines(n) : n \in (DEMOLITION_LINES - 1)..MaxLines}
    /\ editCall = NoCall
    /\ undo = [active |-> FALSE]
    /\ TermIdle
    /\ ToolsIdle
    /\ WsIdle
    /\ RestIdle

NextEditLines == EditFileLines \/ EditReturn

SpecEditLines == InitEditLines /\ [][NextEditLines]_vars

InitStream == StreamIdle /\ ReconIdle /\ SearchIdle /\ ChatIdle /\ LoopIdle /\ EditIdle /\ TermIdle /\ ToolsIdle /\ WsIdle

NextStream ==
    \/ OpenStream
    \/ Tick
    \/ ProducerYields
    \/ SendEvent
    \/ ProducerEnds
    \/ ProducerRaises
    \/ SendError
    \/ CloseStream

SpecStream == InitStream /\ [][NextStream]_vars

\* A session that has come close to the limit of a reconnect
InitReconnect ==
    /\ chatMessages \in {Rows(n) : n \in (RECONNECT_LIMIT - 1)..RECONNECT_LIMIT}
    /\ reconCall = NoCall
    /\ StreamIdle /\ SearchIdle /\ ChatIdle /\ LoopIdle /\ EditIdle /\ TermIdle /\ ToolsIdle /\ WsIdle

NextReconnect == AddMessage \/ Reconnect \/ ReconnectReturn

SpecReconnect == InitReconnect /\ [][NextReconnect]_vars

InitSearch == SearchIdle /\ StreamIdle /\ ReconIdle /\ ChatIdle /\ LoopIdle /\ EditIdle /\ TermIdle /\ ToolsIdle /\ WsIdle

NextSearch == GrepSearch \/ FileSearch \/ SearchReturn

SpecSearch == InitSearch /\ [][NextSearch]_vars

NextScan == ScanGlobSearch \/ ScanGrepSearch \/ ScanFileSearch \/ SearchReturn

SpecScan == InitSearch /\ [][NextScan]_vars

\* The write tools, on a target that does not exist yet
NextWrite == WriteFile \/ WriteJson \/ EditReturn

SpecWrite == InitTools /\ [][NextWrite]_vars

InitChat ==
    /\ ChatIdle /\ LoopIdle
    /\ StreamIdle /\ ReconIdle /\ SearchIdle /\ EditIdle /\ TermIdle /\ ToolsIdle /\ WsIdle

RunStep(r) == AgentTurn(r) \/ RunReturns(r) \/ RunRaises(r) \/ RunCancelled(r)

NextChat ==
    \E r \in Requests : StartRequest(r) \/ RunStep(r) \/ RequestReturn(r)

SpecChat == InitChat /\ [][NextChat]_vars

\* Concurrent requests of clients that each have a project of their own
NextChatProjects ==
    \E r \in Requests : StartOwnProject(r) \/ RunStep(r) \/ RequestReturn(r)

SpecChatProjects == InitChat /\ [][NextChatProjects]_vars

\* Requests one after the other
NextChatSerial ==
    \E r \in Requests : StartAlone(r) \/ RunStep(r) \/ RequestReturn(r)

SpecChatSerial == InitChat /\ [][NextChatSerial]_vars

\* The event loop resumes a call that waits for its run, and a run goes on
\* until it stops.
\* The agent loop of one run
InitLoop == LoopIdle /\ ChatIdle /\ StreamIdle /\ ReconIdle /\ SearchIdle /\ EditIdle /\ TermIdle /\ ToolsIdle /\ WsIdle

NextLoop ==
    \/ LoopStart
    \/ Plan
    \/ Delegate
    \/ ToolSucceeds
    \/ ToolFails
    \/ CoderAnswers
    \/ CallsExhausted
    \/ Review
    \/ LoopReturn

SpecLoop == InitLoop /\ [][NextLoop]_vars

SpecChatSerialFair == SpecChatSerial /\ \A r \in Requests : WF_vars(RunStep(r))

(***************************************************************************)
(* Properties of edit_file.                                                *)
(***************************************************************************)
\* The positions at which sub occurs in s
Occurrences(s, sub) ==
    {i \in 1..(Len(s) - Len(sub) + 1) : SubSeq(s, i, i + Len(sub) - 1) = sub}

FirstOccurrence(s, sub) ==
    CHOOSE i \in Occurrences(s, sub) : \A j \in Occurrences(s, sub) : i <= j

\* s with the Len(old) characters at position p replaced by new
Spliced(s, p, old, new) ==
    SubSeq(s, 1, p - 1) \o new \o SubSeq(s, p + Len(old), Len(s))

NoCR(s) == \A i \in 1..Len(s) : s[i] # CR

EditSucceeded == editCall.op = "edit_file" /\ editCall.success

UndoneOnce ==
    /\ undo.active
    /\ Cardinality(Occurrences(undo.first.content, undo.first.old)) = 1

InsertedIsFirst(first) ==
    FirstOccurrence(first.new_content, first.new) = FirstOccurrence(first.content, first.old)

C10_EmptyOldAppends ==
    (EditSucceeded /\ editCall.old = <<>>)
        => editCall.new_content = editCall.content \o editCall.new

\* s with every run of horizontal whitespace collapsed into one space
RECURSIVE CollapseSpaces(_)
CollapseSpaces(s) ==
    IF Len(s) <= 1 THEN s
    ELSE IF s[1] = SP /\ s[2] = SP THEN CollapseSpaces(Tail(s))
         ELSE <<s[1]>> \o CollapseSpaces(Tail(s))

\* old_string is not in the text byte for byte, and is in it exactly once after
\* the runs of horizontal whitespace of both are collapsed.
MatchesOnlyNormalized(content, old_string) ==
    /\ ~Contains(content, old_string)
    /\ \E i \in 1..Len(old_string) : old_string[i] # SP
    /\ Cardinality(Occurrences(CollapseSpaces(content), CollapseSpaces(old_string))) = 1

\* C11 as stated: when old_string does not occur byte for byte in the file and
\* occurs exactly once after collapsing runs of horizontal whitespace, edit_file
\* succeeds and replaces that occurrence, so the file is changed to hold
\* new_string where the match was.
C11_NormalizedMatchEdits ==
    (editCall.op = "edit_file" /\ editCall.before # NoFile
        /\ MatchesOnlyNormalized(editCall.content, editCall.old))
        => /\ editCall.success
           /\ Contains(editCall.new_content, editCall.new)
           /\ editCall.after = editCall.new_content

\* The number of lines in s
LineCount(s) == Cardinality({i \in 1..Len(s) : s[i] = LF})

\* C12 as stated: an edit that removes more than 100 lines and adds fewer than 10
\* is rejected with an error and the file is left unchanged.
C12_LargeDeletionRejected ==
    (editCall.op = "edit_file" /\ editCall.before # NoFile
        /\ Contains(editCall.content, editCall.old)
        /\ LineCount(editCall.old) > DEMOLITION_LINES
        /\ LineCount(editCall.new) < 10)
        => /\ ~editCall.success
           /\ editCall.error # ""
           /\ fileBytes = editCall.before

\* edit_file finds nothing to replace: the target is missing or old_string is
\* not in the text read.
NothingToReplace(call) ==
    call.before = NoFile \/ ~Contains(UniversalNewlines(call.before), call.old)

\* C13: when old_string is not found, or the target file does not exist,
\* edit_file returns a not-found error result and the file is, in content and
\* in existence, exactly as before the call.
C13_NotFoundLeavesFile ==
    (editCall.op = "edit_file" /\ NothingToReplace(editCall))
        => /\ ~editCall.success
           /\ editCall.error \in {"File not found", "String not found in file"}
           /\ (editCall.before = NoFile <=> editCall.error = "File not found")
           /\ editCall.after = editCall.before
           /\ fileBytes = editCall.before

\* edit_file has been called on a missing target, which is still missing.
C13_Witness ==
    /\ editCall.op = "edit_file"
    /\ editCall.before = NoFile
    /\ editCall.old # <<>>
    /\ ~editCall.success
    /\ fileBytes = NoFile

(***************************************************************************)
(* Properties of run_terminal_cmd.                                         *)
(***************************************************************************)
TerminalCalled == termCall # NoCall

\* The command holds a deny-listed launcher, compared case-insensitively.
HoldsLauncher(command) ==
    \E i \in 1..Len(forbidden_patterns) : Contains(LowerStr(command), forbidden_patterns[i])

\* The command holds a shell '&' launch: an '&' that is no part of '&&'.
HoldsAmpersandLaunch(command) ==
    \E i \in 1..Len(command) :
        /\ command[i] = "&"
        /\ (i = 1 \/ command[i - 1] # "&")
        /\ (i = Len(command) \/ command[i + 1] # "&")

\* C4 as stated: a command holding a deny-listed launcher substring is answered
\* with a blocked result and no subprocess is started for it, whichever
\* implementation handles it and whatever its flags are.
C4_LauncherBlocked ==
    (TerminalCalled /\ HoldsLauncher(termCall.command))
        => (~proc.started /\ termResult.kind = "blocked")

\* C5 as stated: a command that launches a background process (a shell '&'
\* launch, or is_background = true) is never executed: no subprocess is started.
C5_BackgroundNeverRuns ==
    (TerminalCalled /\ (termCall.is_background \/ HoldsAmpersandLaunch(termCall.command)))
        => ~proc.started

\* C6 as stated: when confirmation is required, the call short-circuits with a
\* needs-approval result and has no side effect (no subprocess is started).
C6_ConfirmationGate ==
    (TerminalCalled /\ termCall.require_user_approval)
        => (~proc.started /\ termResult.kind = "needs_approval")

\* C7 as stated: every command that is executed is bounded by the 60-second
\* timeout: one that runs longer is killed and reported as a timeout, so neither
\* the call nor the process it spawned outlives the timeout.
C7_TimeoutBound ==
    (TerminalCalled /\ proc.started)
        => /\ termResult.returned <= TERMINAL_TIMEOUT
           /\ proc.ends <= TERMINAL_TIMEOUT
           /\ (termCall.duration > TERMINAL_TIMEOUT
                  => (proc.killed /\ termResult.kind = "timeout"))

(***************************************************************************)
(* Properties of the tool catalog.                                         *)
(***************************************************************************)
ToolCalled == toolCall # NoCall

\* The result is a dict with success False and an error text.
StructuredFailure(result) ==
    /\ ~result.raised
    /\ result.type = "dict"
    /\ {"success", "error"} \subseteq result.keys
    /\ ~result.success
    /\ result.error # "none"

\* The call meets a failure: an unknown tool name or arguments that do not bind
\* (the body is not run), a missing path, an exception in the body, a file that
\* cannot be read, a command that fails.
MeetsFailure(call) ==
    call.event # "returns"

\* grep_search meets a file it cannot read and the clause around the read names
\* the exception.
UnreadableFileSkipped(call) ==
    /\ call.event = "scan_raises"
    /\ \/ call.cls \in {"UnicodeDecodeError", "PermissionError"}
       \/ (call.module # "tools_py" /\ call.cls \in {"OSError", "FileNotFoundError"})

\* The call meets a failure other than a skipped file and a non-zero exit code.
MeetsCaughtFailure(call) ==
    /\ MeetsFailure(call)
    /\ call.event # "exits_nonzero"
    /\ ~UnreadableFileSkipped(call)

C3_SchemaViolationIsValidationError ==
    (ToolCalled /\ toolCall.op = "execute_tool" /\ toolCall.tool \in TOOLS
        /\ toolCall.shape # "valid")
        => (StructuredFailure(toolResult) /\ toolResult.error = "invalid_arguments")

(***************************************************************************)
(* Properties of the chat stream.                                          *)
(***************************************************************************)
StreamOpen == streamPc \in {"awaiting", "received", "failed"}

\* C14 as stated: while a chat stream is open, a keep-alive frame is sent
\* whenever the time since the last frame sent exceeds 15 seconds, so the
\* connection never stays silent for longer than that interval.
C14_SilenceBounded ==
    StreamOpen => silence <= HEARTBEAT_INTERVAL

\* The frames that carry an event
DataFrames == SelectSeq(frames, LAMBDA f : f.kind = "data")
ErrorFrames == SelectSeq(frames, LAMBDA f : f.kind = "data" /\ f.type = "error")
EventFrames == SelectSeq(frames, LAMBDA f : f.kind = "data" /\ f.type # "error")

\* Once the agent run has raised and the stream has ended, the last frame is
\* the error frame with the message of the exception, and it is the only one;
\* no other stream holds an error frame.
ErrorFrameIsLast ==
    /\ (streamPc = "closed" /\ streamError # NoStreamError)
          => /\ frames # <<>>
             /\ frames[Len(frames)] = ErrorFrame(streamError)
             /\ Len(ErrorFrames) = 1
    /\ (streamPc # "closed" \/ streamError = NoStreamError) => ErrorFrames = <<>>

\* The step after the failure ends the stream and only appends to what was sent.
EarlierFramesKept ==
    streamPc = "failed"
        => /\ streamPc' = "closed"
           /\ Len(frames') >= Len(frames)
           /\ SubSeq(frames', 1, Len(frames)) = frames

EventsSent ==
    IF streamPc = "received" THEN SubSeq(produced, 1, Len(produced) - 1) ELSE produced

\* C17: every event of the agent run becomes exactly one data frame, sent by the
\* step that follows its production; the data frames are the events produced, in
\* order, none dropped, duplicated or reordered, keep-alive frames apart.
C17_EventsMapOneToOne ==
    /\ Len(EventFrames) = Len(EventsSent)
    /\ \A i \in 1..Len(EventsSent) : EventFrames[i] = DataFrame(EventsSent[i])
    /\ streamPc = "received" => (pending = produced[Len(produced)] /\ ENABLED SendEvent)

\* Three events were sent, one of them behind a keep-alive frame.
C17_Witness ==
    /\ streamPc = "awaiting"
    /\ Len(produced) = MaxEvents
    /\ Len(EventFrames) = MaxEvents
    /\ \E i \in 1..Len(frames) : frames[i] = KeepAliveFrame
    /\ \E i, j \in 1..Len(produced) : produced[i] # produced[j]

(***************************************************************************)
(* Properties of the chat history.                                         *)
(***************************************************************************)
\* C15 as stated: for a session with any number of persisted messages and any
\* k, the reconnect request with since_message_id = k returns exactly the
\* messages of the session with an id greater than k, each once, in creation
\* order, none missing.
C15_ReconnectReturnsAllAfter ==
    reconCall # NoCall
        => reconCall.response.new_messages
              = SelectSeq(chatMessages, LAMBDA id : id > reconCall.since)

(***************************************************************************)
(* Properties of the search tools.                                         *)
(***************************************************************************)
\* C20 as stated: grep_search returns at most 50 result entries and
\* file_search at most 10 matches, however many files hold matches, in the
\* tools package and in the tools.py registry alike.
C20_SearchResultsCapped ==
    /\ searchCall.op = "grep_search" => Len(searchCall.result.results) <= GREP_LIMIT
    /\ searchCall.op = "file_search" => Len(searchCall.result.results) <= FILE_SEARCH_LIMIT

\* The directories the search tools are to leave out: version-control metadata,
\* dependency caches, build output
ExcludedDirectories == {".git", "node_modules", "dist", "build"}

\* C21 as stated: no path returned by glob_search, grep_search or file_search
\* lies inside an excluded directory.
C21_NoPathInExcludedDir ==
    searchCall.op = "scan"
        => \A path \in searchCall.paths : ~InExcludedDir(path, ExcludedDirectories)

\* C27 as stated: the command guard blocks only disruptive commands:
\* "npm install <package>", for every package name, and "npm ci" are executed,
\* and a command that uses '&' only as the '&&' operator is not rejected as a
\* background command.
C27_AllowedCommandsRun ==
    (TerminalCalled /\ termCall.command \in AllowedCommands)
        => termResult.kind \notin {"blocked", "blocked_background"}

(***************************************************************************)
(* Properties of the write tools.                                          *)
(***************************************************************************)
\* C26 as stated: on success write_file reports bytes_written equal to the
\* number of bytes stored in the target file (its UTF-8 encoding), for every
\* content, non-ASCII characters included.
C26_BytesWrittenIsFileSize ==
    (editCall.op = "write_file" /\ editCall.success)
        => /\ fileBytes = Utf8(editCall.input)
           /\ editCall.bytes_written = Len(fileBytes)

\* C30 as stated: when write_json or write_file returns success=false, the
\* target file still has exactly the content it had before the call, or still
\* does not exist.
C30_FailedWriteLeavesTarget ==
    (editCall.op \in {"write_file", "write_json"} /\ ~editCall.success)
        => fileBytes = editCall.before

(***************************************************************************)
(* Properties of the chat requests.                                        *)
(***************************************************************************)
\* C22 as stated: a workspace has at most one acting session at any time; two
\* agent runs never act on the file tree of the same project concurrently.
C22_OneActingSessionPerProject ==
    \A r, q \in Requests :
        (r # q /\ reqs[r].pc = "running" /\ reqs[q].pc = "running")
            => reqs[r].project # reqs[q].project

\* C23 as stated: under every interleaving of two calls for projects A and B,
\* each tool call made on behalf of a project resolves its relative paths
\* inside the directory of that project and never writes the other's.
C23_WritesStayInOwnProject ==
    lastWrite # NoWrite => lastWrite.dir = ProjectDir(lastWrite.project)

\* C28 as stated: once every call in flight has returned, normally or through
\* an error, the working directory of the process is the one in effect before
\* the first call started, under every interleaving of concurrent calls.
C28_WorkingDirectoryRestored ==
    (\A r \in Requests : reqs[r].pc # "running") => cwd = BaseDir

(***************************************************************************)
(* Properties of the agent loop.                                           *)
(***************************************************************************)
\* The step is the second failure in a row of one tool with one error
SecondSameFailure == loop.same_errors = 1 /\ loop'.same_errors = 2

\* The step is a tool call made after one tool has failed twice in a row
CallAfterSecondFailure == loop.same_errors = 2 /\ loop'.calls = loop.calls + 1

C29_UserThenOneAssistantMessage ==
    \A r \in Requests :
        reqs[r].pc \in Terminal
            => /\ Len(reqs[r].messages) = 2
               /\ reqs[r].messages[1].role = "user"
               /\ reqs[r].messages[2].role = "assistant"

RunEnded(r) == reqs[r].pc \in {"done", "failed", "cancelled"}

C1_NothingLeftUncommitted ==
    (wsCall # NoCall /\ wsCall.success) => get_diff = {}

\* C18: restore_commit never rewinds history.  A step never removes or changes
\* a commit of the history, and a restore_commit that succeeds puts exactly one
\* new commit on top of it.
C18_RestoreOnlyAppends ==
    [][/\ Len(commits') >= Len(commits)
       /\ SubSeq(commits', 1, Len(commits)) = commits
       /\ (wsCall = NoCall /\ wsCall'.op = "restore_commit" /\ wsCall'.success)
             => Len(commits') = Len(commits) + 1]_vars

\* A commit that is not the last one was restored, and every commit is still
\* there with the new one on top.
C18_Witness ==
    /\ wsCall.op = "restore_commit"
    /\ wsCall.success
    /\ wsCall.hash + 1 < Len(commits)
    /\ Len(commits) = MaxCommits

\* GitService.get_file_at_commit(project_id, filepath, commit_hash):
\* "git show <hash>:<path>", None when the commit does not hold the path
get_file_at_commit(filepath, h) == commits[h][filepath]

\* C19 as stated: after restore_commit(project, h) returns True the project is
\* restored to commit h: for every path the content at the new head equals the
\* content at commit h.
C19_RestoredToCommit ==
    (wsCall.op = "restore_commit" /\ wsCall.success)
        => \A p \in Paths :
              get_file_at_commit(p, Len(commits)) = get_file_at_commit(p, wsCall.hash)

=============================================================================
